---------------------------- MODULE Spec2Model ----------------------------
(***************************************************************************)
(* A model of the Eksplorasa API repository:                               *)
(*   - the deploy script (bash, `set -e`),                                 *)
(*   - the stand-alone DynamoDB write script (addItem) and the table it    *)
(*     writes to (MyCdkStack),                                             *)
(*   - the EksplorasaApiStack constructor, in the two versions the         *)
(*     repository holds, and the REST gateway it declares.                 *)
(* Three specifications share the variables: SpecDeploy, SpecItem,         *)
(* SpecStack.  Each leaves the variables of the other two untouched.       *)
(***************************************************************************)
EXTENDS Naturals, Sequences, FiniteSets, TLC

VARIABLES
    \* ---- deploy script ----
    callerStage,     \* STAGE in the environment the script is started in
    pc,              \* position in the script
    shStage,         \* the shell variable STAGE
    stackName,       \* the shell variable STACK_NAME
    currentAccount,  \* the shell variable CURRENT_ACCOUNT
    lastStatus,      \* $?
    out,             \* lines the script itself echoed, in order
    ran,             \* external commands run, in order, with their status
    exitStatus,      \* the script's exit status once pc = "exited"
    synthStage,      \* stage resolved by the stack when cdk deploy runs it
    \* ---- write script ----
    ipc,             \* position in addItem
    tableDeployed,   \* whether MyCdkStack's table exists
    table,           \* the table's items, by partition key value
    sends,           \* PutCommand sends issued in this run
    putRequest,      \* the PutCommand input in flight, or NoRequest
    settled,         \* what the pending send settled with
    logs,            \* console lines of this run
    promise,         \* state of the promise addItem() returned
    runs,            \* runs of the script started so far
    \* ---- stack ----
    variant,         \* which version of the stack file is synthesized
    ctxStage,        \* tryGetContext('stage')
    envStage,        \* process.env.STAGE
    spc,             \* index of the next constructor statement
    stage,           \* the constructor's local `stage`
    constructs,      \* construct ids and resource names declared so far
    database,        \* the rds.DatabaseInstance declared, or NoDatabase
    ingress,         \* ingress rules of the database security group
    functions,       \* lambda.Function declarations
    functionUrls,    \* addFunctionUrl declarations
    gateway,         \* the RestApi declared, or NoGateway
    methods,         \* methods added to the gateway's resources
    request,         \* the HTTP request in flight at the gateway, or NoHttpRequest
    response         \* what the gateway did with the last request

deployVars == <<callerStage, pc, shStage, stackName, currentAccount, lastStatus,
                out, ran, exitStatus, synthStage>>
itemVars   == <<ipc, tableDeployed, table, sends, putRequest, settled, logs, promise,
                runs>>
stackVars  == <<variant, ctxStage, envStage, spc, stage, constructs, database,
                ingress, functions, functionUrls, gateway, methods, request,
                response>>
vars == <<deployVars, itemVars, stackVars>>

---------------------------------------------------------------------------
(* JavaScript values the stage resolution sees: undefined or a string.      *)

JsUndefined == <<"undefined">>

JsString(s) == <<"string", s>>

\* JavaScript truthiness: undefined and the empty string are falsy.
Truthy(v) == v[1] = "string" /\ v[2] # ""

\* a || b
JsOr(a, b) == IF Truthy(a) THEN a ELSE b

\* A mutant of ResolveStage: the environment variable wins over the context.
ResolveStageEnvFirst(ctx, env) == JsOr(JsOr(env, ctx), JsString("prod"))[2]

\* const stage = this.node.tryGetContext('stage') || process.env.STAGE || 'prod'
ResolveStage(ctx, env) == JsOr(JsOr(ctx, env), JsString("prod"))[2]

\* Stage values an operator may pass as context or have in the environment.
StageInputs ==
    {JsUndefined, JsString(""), JsString("dev"), JsString("prod"),
     JsString("staging")}

---------------------------------------------------------------------------
(* The deploy script.                                                       *)

\* Largest exit status an external command is taken to return.
MaxExitCode == 2

ExitCodes == 0..MaxExitCode

\* AWS_ACCOUNT_ID="315565838153"
AWS_ACCOUNT_ID == "315565838153"

\* What `--query Account --output text` may print on success.
Accounts == {AWS_ACCOUNT_ID, "111111111111", "None"}

\* A mutant of ErrExit: the script without `set -e`.
ErrExitOff == FALSE

\* set -e
ErrExit == TRUE

\* A mutant of ScriptStage: STAGE="${STAGE:-dev}", the caller's value kept.
ScriptStageInherit(caller) == IF Truthy(caller) THEN caller[2] ELSE "dev"

\* STAGE="dev": the assignment replaces whatever the caller exported.
ScriptStage(caller) == "dev"

\* A mutant of AccountMismatch: the test inverted.
AccountMismatchInverted(current, target) == current = target

\* [ "$CURRENT_ACCOUNT" != "$AWS_ACCOUNT_ID" ]
AccountMismatch(current, target) == current # target

MsgBanner       == "Starting deployment of Eksplorasa API to AWS account"
MsgChecking     == "Checking AWS credentials..."
MsgNoCreds      == "AWS credentials not configured for 'eksplorasa-dev' profile"
MsgMismatch     == "Warning: Current AWS account doesn't match target account"
MsgSwitch       == "Please switch to the correct AWS profile or account."
MsgVerified     == "AWS credentials verified for account"
MsgInstalling   == "Installing Node.js dependencies..."
MsgBuilding     == "Building the project..."
MsgDeploying    == "Deploying CDK stack..."
MsgCompleted    == "Deployment completed successfully!"

CmdCredCheck == "aws sts get-caller-identity"
CmdAccount   == "aws sts get-caller-identity --query Account"
CmdNpmCi     == "npm ci"
CmdBuild     == "npm run build"
CmdDeploy    == "npx cdk deploy"

DeployInit ==
    /\ callerStage \in StageInputs
    /\ pc = "configure"
    /\ shStage = ""
    /\ stackName = ""
    /\ currentAccount = ""
    /\ lastStatus = 0
    /\ out = <<>>
    /\ ran = <<>>
    /\ exitStatus = 0
    /\ synthStage = ""

DeployIdle ==
    /\ callerStage = JsUndefined
    /\ pc = "idle"
    /\ shStage = ""
    /\ stackName = ""
    /\ currentAccount = ""
    /\ lastStatus = 0
    /\ out = <<>>
    /\ ran = <<>>
    /\ exitStatus = 0
    /\ synthStage = ""

\* What bash does after a simple command that returned `status`: under
\* errexit a non-zero status ends the script with that status.
AfterCommand(status, next) ==
    /\ lastStatus' = status
    /\ IF ErrExit /\ status # 0
       THEN /\ pc' = "exited"
            /\ exitStatus' = status
       ELSE /\ pc' = next
            /\ exitStatus' = exitStatus

\* Lines 173-181: the configuration and the banner.
Configure ==
    /\ pc = "configure"
    /\ UNCHANGED <<itemVars, stackVars>>
    /\ shStage' = ScriptStage(callerStage)
    /\ stackName' = "EksplorasaApiStack-" \o shStage'
    /\ out' = Append(out, MsgBanner)
    /\ pc' = "credCheck"
    /\ UNCHANGED <<callerStage, currentAccount, lastStatus, ran, exitStatus,
                   synthStage>>

\* Lines 184-185: aws sts get-caller-identity --profile eksplorasa-dev > /dev/null
CheckCredentials ==
    /\ pc = "credCheck"
    /\ UNCHANGED <<itemVars, stackVars>>
    /\ \E status \in ExitCodes :
          /\ ran' = Append(ran, [cmd |-> CmdCredCheck, status |-> status])
          /\ AfterCommand(status, "credTest")
    /\ out' = Append(out, MsgChecking)
    /\ UNCHANGED <<callerStage, shStage, stackName, currentAccount, synthStage>>

\* Lines 186-189: if [ $? -ne 0 ]; then echo ...; exit 1; fi
CredentialsTest ==
    /\ pc = "credTest"
    /\ UNCHANGED <<itemVars, stackVars>>
    /\ IF lastStatus # 0
       THEN /\ out' = Append(out, MsgNoCreds)
            /\ pc' = "exited"
            /\ exitStatus' = 1
       ELSE /\ out' = out
            /\ pc' = "queryAccount"
            /\ exitStatus' = exitStatus
    /\ UNCHANGED <<callerStage, shStage, stackName, currentAccount, lastStatus,
                   ran, synthStage>>

\* Line 192: CURRENT_ACCOUNT=$(aws sts get-caller-identity ... --output text)
\* The assignment's status is the command substitution's.
QueryAccount ==
    /\ pc = "queryAccount"
    /\ UNCHANGED <<itemVars, stackVars>>
    /\ \E status \in ExitCodes :
          /\ ran' = Append(ran, [cmd |-> CmdAccount, status |-> status])
          /\ IF status = 0
             THEN currentAccount' \in Accounts
             ELSE currentAccount' = ""
          /\ AfterCommand(status, "verifyAccount")
    /\ UNCHANGED <<callerStage, shStage, stackName, out, synthStage>>

\* Lines 193-200: the account comparison.
VerifyAccount ==
    /\ pc = "verifyAccount"
    /\ UNCHANGED <<itemVars, stackVars>>
    /\ IF AccountMismatch(currentAccount, AWS_ACCOUNT_ID)
       THEN /\ out' = out \o <<MsgMismatch, MsgSwitch>>
            /\ pc' = "exited"
            /\ exitStatus' = 1
       ELSE /\ out' = Append(out, MsgVerified)
            /\ pc' = "npmCi"
            /\ exitStatus' = exitStatus
    /\ UNCHANGED <<callerStage, shStage, stackName, currentAccount, lastStatus,
                   ran, synthStage>>

\* Lines 203-204: npm ci
NpmCi ==
    /\ pc = "npmCi"
    /\ UNCHANGED <<itemVars, stackVars>>
    /\ \E status \in ExitCodes :
          /\ ran' = Append(ran, [cmd |-> CmdNpmCi, status |-> status])
          /\ AfterCommand(status, "build")
    /\ out' = Append(out, MsgInstalling)
    /\ UNCHANGED <<callerStage, shStage, stackName, currentAccount, synthStage>>

\* Lines 207-208: npm run build
NpmBuild ==
    /\ pc = "build"
    /\ UNCHANGED <<itemVars, stackVars>>
    /\ \E status \in ExitCodes :
          /\ ran' = Append(ran, [cmd |-> CmdBuild, status |-> status])
          /\ AfterCommand(status, "deploy")
    /\ out' = Append(out, MsgBuilding)
    /\ UNCHANGED <<callerStage, shStage, stackName, currentAccount, synthStage>>

\* Lines 211-213: export STAGE=$STAGE; npx cdk deploy ... --context stage=$STAGE
\* The tool runs the app, whose stack resolves its stage from the context
\* value and the exported variable.
CdkDeploy ==
    /\ pc = "deploy"
    /\ UNCHANGED <<itemVars, stackVars>>
    /\ synthStage' = ResolveStage(JsString(shStage), JsString(shStage))
    /\ \E status \in ExitCodes :
          /\ ran' = Append(ran, [cmd |-> CmdDeploy, status |-> status])
          /\ AfterCommand(status, "completed")
    /\ out' = Append(out, MsgDeploying)
    /\ UNCHANGED <<callerStage, shStage, stackName, currentAccount>>

\* Lines 215-216: the last echo; the script ends with its status.
Completed ==
    /\ pc = "completed"
    /\ UNCHANGED <<itemVars, stackVars>>
    /\ out' = Append(out, MsgCompleted)
    /\ pc' = "exited"
    /\ exitStatus' = 0
    /\ UNCHANGED <<callerStage, shStage, stackName, currentAccount, lastStatus,
                   ran, synthStage>>

DeployNext ==
    \/ Configure
    \/ CheckCredentials
    \/ CredentialsTest
    \/ QueryAccount
    \/ VerifyAccount
    \/ NpmCi
    \/ NpmBuild
    \/ CdkDeploy
    \/ Completed

---------------------------------------------------------------------------
(* The key-value table (MyCdkStack) and the write script (addItem).         *)

\* Runs of the write script in one behaviour.
MaxRuns == 2

NoRequest == <<"none">>

\* lib-dynamodb marshalls a JavaScript string to a DynamoDB S attribute.
Marshall(v) == IF v[1] = "string" THEN <<"S", v[2]>> ELSE <<"NULL">>

\* new dynamodb.Table(this, 'MyFirstTable', { tableName, partitionKey, ... })
\* No sortKey is given.
MyFirstTable ==
    [tableName    |-> "my-first-table",
     partitionKey |-> [name |-> "id", type |-> "S"],
     sortKey      |-> <<>>]

\* A mutant of AddItemParams: the key attribute misspelt.
AddItemParamsWrongKey ==
    [TableName |-> "my-first-table",
     Item      |-> [Id       |-> JsString("user_001"),
                    username |-> JsString("presley")]]

\* const params = { TableName: "my-first-table", Item: { id, username } }
AddItemParams ==
    [TableName |-> "my-first-table",
     Item      |-> [id       |-> JsString("user_001"),
                    username |-> JsString("presley")]]

\* The service's check of a put against the table's key schema.
ValidForTable(item, tbl) ==
    /\ tbl.partitionKey.name \in DOMAIN item
    /\ Marshall(item[tbl.partitionKey.name])[1] = tbl.partitionKey.type
    /\ tbl.sortKey # <<>> =>
          /\ tbl.sortKey.name \in DOMAIN item
          /\ Marshall(item[tbl.sortKey.name])[1] = tbl.sortKey.type

\* Items other writers may have left in the table, as partition key values.
OtherItems ==
    {[id |-> JsString("user_001"), username |-> JsString("elvis")],
     [id |-> JsString("user_002"), username |-> JsString("priscilla")]}

\* Values a send may reject with, besides the service's own errors.
RejectValues ==
    {<<"Error", "TimeoutError">>, <<"Error", "CredentialsProviderError">>,
     <<"object">>, <<"string", "socket hang up">>, <<"null">>,
     <<"undefined">>}

\* err.stack: a property read throws a TypeError on null and undefined, gives
\* the stack of an Error, and undefined on anything else.
GetStack(err) ==
    IF err[1] \in {"null", "undefined"} THEN <<"throw", "TypeError">>
    ELSE IF err[1] = "Error" THEN <<"value", "stack of " \o err[2]>>
    ELSE <<"value", "undefined">>

ItemInit ==
    /\ ipc = "idle"
    /\ tableDeployed \in BOOLEAN
    /\ table \in SUBSET OtherItems
    /\ ~tableDeployed => table = {}
    /\ sends = 0
    /\ putRequest = NoRequest
    /\ settled = <<"none">>
    /\ logs = <<>>
    /\ promise = "none"
    /\ runs = 0

ItemIdle ==
    /\ ipc = "idle"
    /\ tableDeployed = FALSE
    /\ table = {}
    /\ sends = 0
    /\ putRequest = NoRequest
    /\ settled = <<"none">>
    /\ logs = <<>>
    /\ promise = "none"
    /\ runs = 0

\* cdk deploy of MyCdkStack creates the table.
DeployTable ==
    /\ UNCHANGED <<deployVars, stackVars>>
    /\ ~tableDeployed
    /\ ipc = "idle"
    /\ tableDeployed' = TRUE
    /\ UNCHANGED <<ipc, table, sends, putRequest, settled, logs, promise, runs>>

\* removalPolicy: cdk.RemovalPolicy.DESTROY: deleting the stack deletes the
\* table and its items.
DestroyTable ==
    /\ UNCHANGED <<deployVars, stackVars>>
    /\ tableDeployed
    /\ ipc = "idle"
    /\ tableDeployed' = FALSE
    /\ table' = {}
    /\ UNCHANGED <<ipc, sends, putRequest, settled, logs, promise, runs>>

\* Line 23 and lines 6-16: addItem() is called, builds params and a
\* PutCommand, hands it to client.send and suspends at the await.
AddItemCall ==
    /\ UNCHANGED <<deployVars, stackVars>>
    /\ ipc = "idle"
    /\ runs < MaxRuns
    /\ runs' = runs + 1
    /\ putRequest' = AddItemParams
    /\ sends' = 1
    /\ settled' = <<"none">>
    /\ logs' = <<>>
    /\ promise' = "pending"
    /\ ipc' = "awaiting"
    /\ UNCHANGED <<tableDeployed, table>>

\* The service answers the put: it stores the item, replacing the one with
\* the same key, or refuses it.
ServiceAnswers ==
    /\ UNCHANGED <<deployVars, stackVars>>
    /\ ipc = "awaiting"
    /\ IF ~tableDeployed \/ putRequest.TableName # MyFirstTable.tableName
       THEN /\ settled' = <<"reject", <<"Error", "ResourceNotFoundException">>>>
            /\ table' = table
       ELSE IF ~ValidForTable(putRequest.Item, MyFirstTable)
       THEN /\ settled' = <<"reject", <<"Error", "ValidationException">>>>
            /\ table' = table
       ELSE /\ settled' = <<"resolve", <<"object">>>>
            /\ table' = {i \in table : i.id # putRequest.Item.id}
                           \cup {putRequest.Item}
    /\ ipc' = "settled"
    /\ putRequest' = NoRequest
    /\ UNCHANGED <<tableDeployed, sends, logs, promise, runs>>

\* The send fails before an answer arrives (network, credentials, middleware).
SendFails ==
    /\ UNCHANGED <<deployVars, stackVars>>
    /\ ipc = "awaiting"
    /\ \E v \in RejectValues : settled' = <<"reject", v>>
    /\ ipc' = "settled"
    /\ putRequest' = NoRequest
    /\ UNCHANGED <<tableDeployed, table, sends, logs, promise, runs>>

\* Line 17: the await resumes with a value.
ResumeSuccess ==
    /\ UNCHANGED <<deployVars, stackVars>>
    /\ ipc = "settled"
    /\ settled[1] = "resolve"
    /\ logs' = Append(logs, <<"log", "Success - item added:">>)
    /\ promise' = "fulfilled"
    /\ ipc' = "idle"
    /\ UNCHANGED <<tableDeployed, table, sends, putRequest, settled, runs>>

\* Lines 18-20: the await throws into the catch block, which reads err.stack
\* and logs it; a throw inside the catch block rejects addItem's promise.
ResumeCatch ==
    /\ UNCHANGED <<deployVars, stackVars>>
    /\ ipc = "settled"
    /\ settled[1] = "reject"
    /\ LET stack == GetStack(settled[2])
       IN  IF stack[1] = "throw"
           THEN /\ logs' = logs
                /\ promise' = "rejected"
           ELSE /\ logs' = Append(logs, <<"error", "Error", stack[2]>>)
                /\ promise' = "fulfilled"
    /\ ipc' = "idle"
    /\ UNCHANGED <<tableDeployed, table, sends, putRequest, settled, runs>>

ItemNext ==
    \/ DeployTable
    \/ DestroyTable
    \/ AddItemCall
    \/ ServiceAnswers
    \/ SendFails
    \/ ResumeSuccess
    \/ ResumeCatch

---------------------------------------------------------------------------
(* The EksplorasaApiStack constructor, in the repository's two versions.    *)

LibStack    == "lib/eksplorasa-api-stack.ts"
DetailStack == "unnamed/part_001"

StackFiles == {LibStack, DetailStack}

\* The constructor's statements, in order, per file.
Program(file) ==
    <<"stage", "vpc", "dbSecurityGroup", "ingressVpc", "ingressAnyIpv4",
      "database", "pg8000Layer", "lambdaSecurityGroup", "customerHomepage",
      "customerHomepageUrl", "ingressLambda">>
    \o (IF file = LibStack
        THEN <<"customerHomepageOutput", "browseApiLambda", "browseApi",
               "exploreGet", "browseOutput">>
        ELSE <<"restaurantDetail", "restaurantDetailUrl",
               "customerHomepageOutput", "restaurantDetailOutput">>)

\* A template literal `prefix${stage}`, kept as its parts.
Template(prefix, st) == <<prefix, st>>

Render(t) == t[1] \o t[2]

NoName == <<"", "">>

NoDatabase == [declared |-> FALSE]

NoGateway == [declared |-> FALSE]

NoHttpRequest == [path |-> "", httpMethod |-> "", query |-> {}]

NoResponse == <<"none">>

\* A mutant of FunctionUrlOptions: the URL behind IAM authentication.
FunctionUrlOptionsIam ==
    [authType |-> "AWS_IAM",
     cors     |-> [allowedOrigins |-> {"*"},
                   allowedMethods |-> {"*"},
                   allowedHeaders |-> {"*"}]]

\* { authType: lambda.FunctionUrlAuthType.NONE, cors: { allowedOrigins: ['*'],
\*   allowedMethods: [lambda.HttpMethod.ALL], allowedHeaders: ['*'] } }
\* lambda.HttpMethod.ALL is '*'.
FunctionUrlOptions ==
    [authType |-> "NONE",
     cors     |-> [allowedOrigins |-> {"*"},
                   allowedMethods |-> {"*"},
                   allowedHeaders |-> {"*"}]]

\* The ten query string names of explore.addMethod's requestParameters.
QueryParams ==
    {"sort", "timeStart", "timeEnd", "minPrice", "maxPrice", "cuisines",
     "bagTypes", "maxDistance", "latitude", "longitude"}

\* A mutant of ExploreRequestParameters: latitude and longitude required.
ExploreRequestParametersGeoRequired ==
    [q \in QueryParams |-> q \in {"latitude", "longitude"}]

\* requestParameters: { 'method.request.querystring.<name>': false, ... }
ExploreRequestParameters == [q \in QueryParams |-> FALSE]

\* The environment of the functions that name the stage's database.
StageDbEnvironment(st, db) ==
    [DB_ENDPOINT |-> <<"instanceEndpoint.hostname", db.id>>,
     DB_PORT     |-> "5432",
     DB_NAME     |-> Render(Template("eksplorasa", st)),
     DB_USERNAME |-> "eksplorasa",
     DB_PASSWORD |-> "eksplorasa2025"]

\* The environment of the browse function.
BrowseDbEnvironment(st, db) ==
    [DB_ENDPOINT |-> <<"instanceEndpoint.hostname", db.id>>,
     DB_PORT     |-> "5432",
     DB_NAME     |-> "postgres",
     DB_USERNAME |-> "eksplorasa",
     DB_PASSWORD |-> "eksplorasa2025"]

StackInit ==
    /\ variant \in StackFiles
    /\ ctxStage \in StageInputs
    /\ envStage \in StageInputs
    /\ spc = 1
    /\ stage = ""
    /\ constructs = {}
    /\ database = NoDatabase
    /\ ingress = {}
    /\ functions = {}
    /\ functionUrls = {}
    /\ gateway = NoGateway
    /\ methods = {}
    /\ request = NoHttpRequest
    /\ response = NoResponse

StackIdle ==
    /\ variant = LibStack
    /\ ctxStage = JsUndefined
    /\ envStage = JsUndefined
    /\ spc = 0
    /\ stage = ""
    /\ constructs = {}
    /\ database = NoDatabase
    /\ ingress = {}
    /\ functions = {}
    /\ functionUrls = {}
    /\ gateway = NoGateway
    /\ methods = {}
    /\ request = NoHttpRequest
    /\ response = NoResponse

Synthesized == spc > Len(Program(variant))

\* The statement `label` is the next one; control moves past it.
Stmt(label) ==
    /\ spc \in 1..Len(Program(variant))
    /\ Program(variant)[spc] = label
    /\ spc' = spc + 1
    /\ UNCHANGED <<variant, ctxStage, envStage, request, response>>
    /\ UNCHANGED <<deployVars, itemVars>>

\* new <kind>(this, `<idPrefix>${stage}`, { <name property>: `<namePrefix>${stage}` })
Declare(kind, id, name) ==
    constructs' = constructs \cup {[kind |-> kind, id |-> id, name |-> name]}

\* const stage = tryGetContext('stage') || process.env.STAGE || 'prod'
ResolveStageStmt ==
    /\ Stmt("stage")
    /\ stage' = ResolveStage(ctxStage, envStage)
    /\ UNCHANGED <<constructs, database, ingress, functions, functionUrls,
                   gateway, methods>>

NewVpc ==
    /\ Stmt("vpc")
    /\ Declare("ec2.Vpc", Template("EksplorasaVpc-", stage), NoName)
    /\ UNCHANGED <<stage, database, ingress, functions, functionUrls, gateway,
                   methods>>

NewDbSecurityGroup ==
    /\ Stmt("dbSecurityGroup")
    /\ Declare("ec2.SecurityGroup", Template("DbSecurityGroup-", stage), NoName)
    /\ UNCHANGED <<stage, database, ingress, functions, functionUrls, gateway,
                   methods>>

\* dbSecurityGroup.addIngressRule(ec2.Peer.ipv4(vpc.vpcCidrBlock), ec2.Port.tcp(5432))
AddIngressVpc ==
    /\ Stmt("ingressVpc")
    /\ ingress' = ingress \cup {[peer |-> <<"ipv4", "vpcCidrBlock">>, port |-> 5432]}
    /\ UNCHANGED <<stage, constructs, database, functions, functionUrls,
                   gateway, methods>>

\* dbSecurityGroup.addIngressRule(ec2.Peer.anyIpv4(), ec2.Port.tcp(5432))
AddIngressAnyIpv4 ==
    /\ Stmt("ingressAnyIpv4")
    /\ ingress' = ingress \cup {[peer |-> <<"anyIpv4">>, port |-> 5432]}
    /\ UNCHANGED <<stage, constructs, database, functions, functionUrls,
                   gateway, methods>>

NewDatabase ==
    /\ Stmt("database")
    /\ Declare("rds.DatabaseInstance", Template("EksplorasaDatabase", stage),
               Template("eksplorasa", stage))
    /\ database' =
          [declared       |-> TRUE,
           id             |-> Template("EksplorasaDatabase", stage),
           username       |-> "eksplorasa",
           password       |-> "eksplorasa2025",
           databaseName   |-> Render(Template("eksplorasa", stage)),
           securityGroups |-> {Template("DbSecurityGroup-", stage)},
           publiclyAccessible |-> TRUE]
    /\ UNCHANGED <<stage, ingress, functions, functionUrls, gateway, methods>>

NewPg8000Layer ==
    /\ Stmt("pg8000Layer")
    /\ Declare("lambda.LayerVersion", Template("Pg8000Layer-", stage), NoName)
    /\ UNCHANGED <<stage, database, ingress, functions, functionUrls, gateway,
                   methods>>

NewLambdaSecurityGroup ==
    /\ Stmt("lambdaSecurityGroup")
    /\ Declare("ec2.SecurityGroup", Template("LambdaSecurityGroup-", stage),
               NoName)
    /\ UNCHANGED <<stage, database, ingress, functions, functionUrls, gateway,
                   methods>>

\* new lambda.Function(this, `<idPrefix>${stage}`, { handler, functionName,
\*   securityGroups: [lambdaSecurityGroup], environment })
NewFunction(idPrefix, handler, namePrefix, environment) ==
    /\ Declare("lambda.Function", Template(idPrefix, stage),
               Template(namePrefix, stage))
    /\ functions' = functions \cup
          {[id             |-> Template(idPrefix, stage),
            handler        |-> handler,
            functionName   |-> Template(namePrefix, stage),
            securityGroups |-> {Template("LambdaSecurityGroup-", stage)},
            environment    |-> environment]}

NewCustomerHomepageLambda ==
    /\ Stmt("customerHomepage")
    /\ NewFunction("CustomerHomepageLambda-", "customer_homepage.handler",
                   "eksplorasa-customer-homepage-",
                   StageDbEnvironment(stage, database))
    /\ UNCHANGED <<stage, database, ingress, functionUrls, gateway, methods>>

\* <fn>.addFunctionUrl({ authType, cors })
AddFunctionUrl(idPrefix) ==
    functionUrls' = functionUrls \cup
        {[fn       |-> Template(idPrefix, stage),
          authType |-> FunctionUrlOptions.authType,
          cors     |-> FunctionUrlOptions.cors]}

AddCustomerHomepageUrl ==
    /\ Stmt("customerHomepageUrl")
    /\ AddFunctionUrl("CustomerHomepageLambda-")
    /\ UNCHANGED <<stage, constructs, database, ingress, functions, gateway,
                   methods>>

\* dbSecurityGroup.addIngressRule(lambdaSecurityGroup, ec2.Port.tcp(5432))
AddIngressLambda ==
    /\ Stmt("ingressLambda")
    /\ ingress' = ingress \cup
          {[peer |-> <<"securityGroup", Template("LambdaSecurityGroup-", stage)>>,
            port |-> 5432]}
    /\ UNCHANGED <<stage, constructs, database, functions, functionUrls,
                   gateway, methods>>

\* new cdk.CfnOutput(this, `<idPrefix>${stage}`, { exportName: `EksplorasaApi-${stage}-<suffix>` })
\* The export name is kept as the parts before and after the stage.
Output(idPrefix, suffix) ==
    Declare("cdk.CfnOutput", Template(idPrefix, stage),
            <<"EksplorasaApi-", stage, suffix>>)

OutputCustomerHomepageUrl ==
    /\ Stmt("customerHomepageOutput")
    /\ Output("CustomerHomepageUrl-", "-CustomerHomepageUrl")
    /\ UNCHANGED <<stage, database, ingress, functions, functionUrls, gateway,
                   methods>>

NewBrowseApiLambda ==
    /\ Stmt("browseApiLambda")
    /\ NewFunction("BrowseApiLambda-", "browse_api.handler",
                   "eksplorasa-browse-api-",
                   BrowseDbEnvironment(stage, database))
    /\ UNCHANGED <<stage, database, ingress, functionUrls, gateway, methods>>

\* new apigateway.RestApi(this, `BrowseApi-${stage}`, { restApiName,
\*   defaultCorsPreflightOptions, deployOptions: { stageName: stage, ... } })
NewBrowseApi ==
    /\ Stmt("browseApi")
    /\ Declare("apigateway.RestApi", Template("BrowseApi-", stage),
               Template("Eksplorasa Browse API - ", stage))
    /\ gateway' =
          [declared  |-> TRUE,
           id        |-> Template("BrowseApi-", stage),
           stageName |-> stage,
           cors      |-> [allowOrigins |-> {"*"},
                          allowMethods |-> {"OPTIONS", "GET", "PUT", "POST",
                                            "DELETE", "PATCH", "HEAD"},
                          allowHeaders |-> {"Content-Type", "X-Amz-Date",
                                            "Authorization", "X-Api-Key"}]]
    /\ UNCHANGED <<stage, database, ingress, functions, functionUrls, methods>>

\* const browseIntegration = new apigateway.LambdaIntegration(browseApiLambda)
\* const explore = browseApi.root.addResource('explore')
\* explore.addMethod('GET', browseIntegration, { requestParameters })
\* No request validator is given.
AddExploreGet ==
    /\ Stmt("exploreGet")
    /\ methods' = methods \cup
          {[path              |-> "/explore",
            httpMethod        |-> "GET",
            integration       |-> Template("BrowseApiLambda-", stage),
            requestParameters |-> ExploreRequestParameters,
            validateRequestParameters |-> FALSE]}
    /\ UNCHANGED <<stage, constructs, database, ingress, functions,
                   functionUrls, gateway>>

OutputBrowseApiUrl ==
    /\ Stmt("browseOutput")
    /\ Output("BrowseApiUrl-", "-BrowseApiUrl")
    /\ UNCHANGED <<stage, database, ingress, functions, functionUrls, gateway,
                   methods>>

NewRestaurantDetailLambda ==
    /\ Stmt("restaurantDetail")
    /\ NewFunction("RestaurantDetailLambda-",
                   "customer_restaurant_detail.handler",
                   "eksplorasa-restaurant-detail-",
                   StageDbEnvironment(stage, database))
    /\ UNCHANGED <<stage, database, ingress, functionUrls, gateway, methods>>

AddRestaurantDetailUrl ==
    /\ Stmt("restaurantDetailUrl")
    /\ AddFunctionUrl("RestaurantDetailLambda-")
    /\ UNCHANGED <<stage, constructs, database, ingress, functions, gateway,
                   methods>>

OutputRestaurantDetailUrl ==
    /\ Stmt("restaurantDetailOutput")
    /\ Output("RestaurantDetailUrl-", "-RestaurantDetailUrl")
    /\ UNCHANGED <<stage, database, ingress, functions, functionUrls, gateway,
                   methods>>

(* Requests at the declared gateway, once the stack is synthesized.         *)

\* Requests a client may send: GET /explore with any set of the declared
\* query parameters, and requests for a method or a path nothing declares.
Requests ==
    {[path |-> "/explore", httpMethod |-> "GET", query |-> q] :
        q \in SUBSET QueryParams}
    \cup {[path |-> "/explore", httpMethod |-> "POST", query |-> {}],
          [path |-> "/", httpMethod |-> "GET", query |-> {}]}

ReceiveRequest ==
    /\ Synthesized
    /\ gateway.declared
    /\ request = NoHttpRequest
    /\ response = NoResponse
    /\ request' \in Requests
    /\ response' = NoResponse
    /\ UNCHANGED <<variant, ctxStage, envStage, spc, stage, constructs,
                   database, ingress, functions, functionUrls, gateway, methods>>
    /\ UNCHANGED <<deployVars, itemVars>>

\* The gateway looks the method up by resource path and HTTP method; a
\* declared method checks its required parameters only under a validator,
\* then invokes its integration with the query string passed on.
RouteRequest ==
    /\ request # NoHttpRequest
    /\ response = NoResponse
    /\ LET hit == {m \in methods : /\ m.path = request.path
                                   /\ m.httpMethod = request.httpMethod}
       IN  IF hit = {}
           THEN response' = <<"refused", "Missing Authentication Token">>
           ELSE \E m \in hit :
                   IF /\ m.validateRequestParameters
                      /\ \E q \in DOMAIN m.requestParameters :
                            m.requestParameters[q] /\ q \notin request.query
                   THEN response' = <<"refused", "Missing required request parameters">>
                   ELSE response' = <<"invoked", m.integration, request.query>>
    /\ request' = request
    /\ UNCHANGED <<variant, ctxStage, envStage, spc, stage, constructs,
                   database, ingress, functions, functionUrls, gateway, methods>>
    /\ UNCHANGED <<deployVars, itemVars>>

\* The response is returned to the client and the exchange ends.
ReturnResponse ==
    /\ response # NoResponse
    /\ request' = NoHttpRequest
    /\ response' = NoResponse
    /\ UNCHANGED <<variant, ctxStage, envStage, spc, stage, constructs,
                   database, ingress, functions, functionUrls, gateway, methods>>
    /\ UNCHANGED <<deployVars, itemVars>>

StackNext ==
    \/ ResolveStageStmt
    \/ NewVpc
    \/ NewDbSecurityGroup
    \/ AddIngressVpc
    \/ AddIngressAnyIpv4
    \/ NewDatabase
    \/ NewPg8000Layer
    \/ NewLambdaSecurityGroup
    \/ NewCustomerHomepageLambda
    \/ AddCustomerHomepageUrl
    \/ AddIngressLambda
    \/ OutputCustomerHomepageUrl
    \/ NewBrowseApiLambda
    \/ NewBrowseApi
    \/ AddExploreGet
    \/ OutputBrowseApiUrl
    \/ NewRestaurantDetailLambda
    \/ AddRestaurantDetailUrl
    \/ OutputRestaurantDetailUrl
    \/ ReceiveRequest
    \/ RouteRequest
    \/ ReturnResponse

---------------------------------------------------------------------------
(* The specifications.                                                      *)

InitDeploy == DeployInit /\ ItemIdle /\ StackIdle

SpecDeploy ==
    /\ InitDeploy
    /\ [][DeployNext]_vars

InitItem == ItemInit /\ DeployIdle /\ StackIdle

SpecItem ==
    /\ InitItem
    /\ [][ItemNext]_vars

InitStack == StackInit /\ DeployIdle /\ ItemIdle

SpecStack ==
    /\ InitStack
    /\ [][StackNext]_vars

---------------------------------------------------------------------------
(* Claims about the deploy script, under SpecDeploy.                        *)

StepOrder == <<CmdCredCheck, CmdAccount, CmdNpmCi, CmdBuild, CmdDeploy>>

Echoed(msg) == \E k \in DOMAIN out : out[k] = msg

HasRun(cmd) == \E i \in DOMAIN ran : ran[i].cmd = cmd

AccountReturned ==
    \E i \in DOMAIN ran : ran[i].cmd = CmdAccount /\ ran[i].status = 0

AllSucceeded ==
    /\ Len(ran) = Len(StepOrder)
    /\ \A i \in DOMAIN ran : ran[i].status = 0
    /\ currentAccount = AWS_ACCOUNT_ID

\* C1: whenever the identity query returned an account that differs from the
\* target account 315565838153, none of npm ci, npm run build and cdk deploy
\* has run, and once the comparison is made the script has printed the
\* mismatch warning and exited with a non-zero status.
C1_AccountMismatchAborts ==
    (AccountReturned /\ currentAccount # AWS_ACCOUNT_ID) =>
        /\ ~HasRun(CmdNpmCi) /\ ~HasRun(CmdBuild) /\ ~HasRun(CmdDeploy)
        /\ pc \in {"verifyAccount", "exited"}
        /\ pc = "exited" =>
              /\ exitStatus # 0
              /\ Echoed(MsgMismatch)
              /\ ~Echoed(MsgCompleted)

C1_Witness ==
    /\ pc = "exited"
    /\ AccountReturned
    /\ currentAccount = "111111111111"
    /\ Echoed(MsgMismatch)
    /\ exitStatus = 1

\* The failure messages the script holds.
FailureMessages == {MsgNoCreds, MsgMismatch}

\* C2: every run that ended on a failed step ended with a non-zero exit
\* status and with a failure message printed by the script; a failed
\* credential check printed the 'AWS credentials not configured' message.
C2_EveryFailureHasMessage ==
    (pc = "exited" /\ ~AllSucceeded) =>
        /\ exitStatus # 0
        /\ \E m \in FailureMessages : Echoed(m)
        /\ (ran[1].status # 0) => Echoed(MsgNoCreds)

\* C3: the commands run in the fixed order credential check, account query,
\* npm ci, npm run build, cdk deploy; no command runs after a failed one or
\* after an account mismatch; the completion message is printed, and the exit
\* status is 0, exactly when all of them succeeded.
C3_LinearAbortOnFirstFailure ==
    /\ Len(ran) <= Len(StepOrder)
    /\ \A i \in DOMAIN ran : ran[i].cmd = StepOrder[i]
    /\ \A i \in DOMAIN ran : i < Len(ran) => ran[i].status = 0
    /\ Len(ran) >= 3 => currentAccount = AWS_ACCOUNT_ID
    /\ Echoed(MsgCompleted) => AllSucceeded
    /\ pc = "exited" => (exitStatus = 0 <=> AllSucceeded)
    /\ pc = "exited" => (Echoed(MsgCompleted) <=> AllSucceeded)

C3_Witness ==
    /\ pc = "exited"
    /\ exitStatus = 0
    /\ Echoed(MsgCompleted)
    /\ Len(ran) = 5

\* C10: whatever STAGE the caller's environment held, the stage the stack
\* resolves when the script runs cdk deploy is 'dev', the stage of the stack
\* name the script announced.
C10_DeployStageIsDev ==
    HasRun(CmdDeploy) =>
        /\ synthStage = "dev"
        /\ stackName = "EksplorasaApiStack-" \o synthStage
        /\ stackName = "EksplorasaApiStack-dev"

C10_Witness ==
    /\ HasRun(CmdDeploy)
    /\ callerStage = JsString("prod")
    /\ synthStage = "dev"

---------------------------------------------------------------------------
(* Claims about the write script and the table, under SpecItem.             *)

\* C4: every finished run of addItem issued exactly one send, left its
\* promise fulfilled and logged exactly one line, whatever the send
\* rejected with.
C4_OneSendAlwaysCaught ==
    (runs > 0 /\ ipc = "idle") =>
        /\ sends = 1
        /\ promise = "fulfilled"
        /\ Len(logs) = 1

\* C8: the table has the single partition key 'id' of type string and no sort
\* key, and the put in flight names that table, satisfies its key schema with
\* a string 'id', and carries exactly the attributes 'id' and 'username'; the
\* service never refuses it as invalid and an accepted put is in the table.
C8_ItemValidForTable ==
    /\ MyFirstTable.partitionKey = [name |-> "id", type |-> "S"]
    /\ MyFirstTable.sortKey = <<>>
    /\ ipc = "awaiting" =>
          /\ putRequest.TableName = MyFirstTable.tableName
          /\ ValidForTable(putRequest.Item, MyFirstTable)
          /\ DOMAIN putRequest.Item = {"id", "username"}
          /\ Marshall(putRequest.Item.id)[1] = "S"
    /\ settled # <<"reject", <<"Error", "ValidationException">>>>
    /\ (ipc = "settled" /\ settled[1] = "resolve") =>
          [id |-> JsString("user_001"), username |-> JsString("presley")]
              \in table

C8_Witness ==
    /\ ipc = "settled"
    /\ settled[1] = "resolve"
    /\ Cardinality(table) = 2

---------------------------------------------------------------------------
(* Claims about the stack, under SpecStack.                                 *)

OpenCors ==
    [allowedOrigins |-> {"*"}, allowedMethods |-> {"*"},
     allowedHeaders |-> {"*"}]

UrlFunctions == {u.fn : u \in functionUrls}

GetMethods == {m \in methods : m.httpMethod = "GET"}

\* C5 as stated, of the stack the claim cites (lib/eksplorasa-api-stack.ts):
\* the synthesized stack declares exactly two function URLs, each open, and
\* a gateway with one GET method routed to a third function.
C5_TwoUrlsAndGateway ==
    (Synthesized /\ variant = LibStack) =>
        /\ Cardinality(functionUrls) = 2
        /\ \A u \in functionUrls : u.authType = "NONE" /\ u.cors = OpenCors
        /\ gateway.declared
        /\ Cardinality(GetMethods) = 1
        /\ \A m \in GetMethods : m.integration \notin UrlFunctions
        /\ Cardinality(functions) = 3

\* C5 as amended: every function URL declared has authentication NONE and
\* CORS open to all origins, methods and headers.  The stack of
\* lib/eksplorasa-api-stack.ts declares one function URL and a gateway whose
\* single GET method goes to a second function, which has no URL; the other
\* version of the stack declares two function URLs and no gateway.
C5_FunctionUrlsOpen ==
    /\ \A u \in functionUrls : u.authType = "NONE" /\ u.cors = OpenCors
    /\ \A u \in functionUrls : \E f \in functions : f.id = u.fn
    /\ (Synthesized /\ variant = LibStack) =>
          /\ Cardinality(functionUrls) = 1
          /\ Cardinality(functions) = 2
          /\ gateway.declared
          /\ Cardinality(GetMethods) = 1
          /\ \A m \in GetMethods :
                /\ m.integration \notin UrlFunctions
                /\ \E f \in functions : f.id = m.integration
    /\ (Synthesized /\ variant = DetailStack) =>
          /\ Cardinality(functionUrls) = 2
          /\ Cardinality(functions) = 2
          /\ ~gateway.declared
          /\ methods = {}

C5_Witness ==
    /\ Synthesized
    /\ variant = LibStack
    /\ Cardinality(functionUrls) = 1
    /\ gateway.declared

\* Every name declared so far carries `st` as its stage.
NamesUse(st) ==
    /\ \A c \in constructs :
          /\ c.id[2] = st
          /\ c.name # NoName => c.name[2] = st
    /\ \A f \in functions : f.id[2] = st /\ f.functionName[2] = st
    /\ database.declared =>
          /\ database.id[2] = st
          /\ database.databaseName = "eksplorasa" \o st
    /\ gateway.declared => gateway.stageName = st

\* C6 as stated: the stage is the context value when one is supplied,
\* otherwise the environment value when one is supplied, otherwise 'prod',
\* and every stage-dependent name uses it.
C6_SuppliedPrecedence ==
    spc > 1 =>
        /\ stage = (IF ctxStage # JsUndefined THEN ctxStage[2]
                    ELSE IF envStage # JsUndefined THEN envStage[2]
                    ELSE "prod")
        /\ NamesUse(stage)

\* C6 as amended: the stage is the context value when a non-empty one is
\* supplied, otherwise the environment value when a non-empty one is
\* supplied, otherwise 'prod'; and every stage-dependent name uses it.
C6_NonEmptyPrecedence ==
    spc > 1 =>
        LET expected ==
                IF ctxStage \notin {JsUndefined, JsString("")} THEN ctxStage[2]
                ELSE IF envStage \notin {JsUndefined, JsString("")}
                     THEN envStage[2]
                ELSE "prod"
        IN  /\ stage = expected
            /\ stage # ""
            /\ NamesUse(expected)

C6_Witness ==
    /\ Synthesized
    /\ variant = LibStack
    /\ ctxStage = JsString("")
    /\ envStage = JsString("staging")
    /\ stage = "staging"
    /\ gateway.stageName = "staging"

C9_FunctionsMatchDatabase ==
    \A f \in functions :
        /\ database.declared
        /\ f.environment.DB_NAME = database.databaseName
        /\ f.environment.DB_NAME = "eksplorasa" \o stage
        /\ f.environment.DB_USERNAME = database.username
        /\ f.environment.DB_PASSWORD = database.password
        /\ f.environment.DB_PORT = "5432"
        /\ Synthesized =>
              \E r \in ingress :
                 /\ ToString(r.port) = f.environment.DB_PORT
                 /\ r.peer[1] = "securityGroup"
                 /\ r.peer[2] \in f.securityGroups

===========================================================================
